---- MODULE Spec2Model ----
(***************************************************************************)
(* Model of src/src/pipeline.py: the two stages of the flight-delay ETL.   *)
(*                                                                         *)
(*   downloading_flight_data  (Fetcher)      specification Spec            *)
(*   extract_and_filter       (Transformer)  specification SpecTransform   *)
(*                                                                         *)
(* The file system is part of the state: the archive files of the output   *)
(* directory (disk), the extracted CSV files (csvfs) and the parquet       *)
(* artifact.  The remote server, exceptions and process interruption are   *)
(* the environment: each is a nondeterministic choice of an action.        *)
(***************************************************************************)
EXTENDS Integers, Sequences, FiniteSets, TLC

\* ------------------------------------------------------------------ bounds
MaxYears == 1        \* years the range may span, counted from FirstYear
MaxAnomalies == 1    \* environment events per behaviour that are not a plain, full 200 download
MaxRuns == 2         \* calls of each stage on the same directories
MaxChunks == 2       \* chunks in a full response body
MaxZips == 2         \* archives in the list given to extract_and_filter

\* ------------------------------------------------------- program constants
FirstYear == 2020    \* line 184: downloading_flight_data(2020, 2024, DATA_DIR)
MonthsPerYear == 12  \* line 36: range(1, 13); line 28: * 12
StatusOK == 200      \* line 55: r.status_code != 200

Years == FirstYear .. (FirstYear + MaxYears - 1)
Months == 1 .. MonthsPerYear
\* A period stands for its file_path: DATA_DIR / filename is injective in (year, month).
Periods == Years \X Months

\* ------------------------------------------------------------------- state
VARIABLES
    \* Fetcher
    start_year, end_year,   \* arguments of downloading_flight_data
    disk,                   \* output directory: period -> file
    pc,                     \* position of the Fetcher
    year, month,            \* loop variables
    current_file, total_files,
    successful_downloads,   \* sequence of periods (paths)
    r,                      \* response of requests.get
    written,                \* chunks written to the open file
    gets,                   \* GET requests issued by the current call, in order
    run,                    \* calls started so far
    prev,                   \* how the preceding call ended, and what it returned
    outcome,                \* per period, how the current call disposed of it
    clean_start,            \* the current call started with no archive on disk
    budget,                 \* anomalies the environment may still produce
    \* Transformer
    zip_files,              \* argument of extract_and_filter: archive names
    zip_dir,                \* file.parent of the archives
    DATA_DIR,               \* the module-level name read by the cleanup
    csvfs,                  \* CSV files on disk: <<directory, name>> -> file
    artifact,               \* processed_file
    tpc,                    \* position of the Transformer
    idx,                    \* enumerate index of the extraction loop
    csv_files,              \* paths appended for loading
    ddf,                    \* the loaded table
    result,                 \* what the call returned
    calls,                  \* calls started so far
    wrote,                  \* the current call wrote the artifact
    opened,                 \* archives the current call opened
    kept,                   \* CSV files whose deletion failed in the cleanup
    at_call,                \* files and last result as the current call found them
    tbudget                 \* anomalies the environment may still produce

fvars == <<start_year, end_year, disk, pc, year, month, current_file, total_files,
           successful_downloads, r, written, gets, run, prev, outcome, clean_start,
           budget>>
tvars == <<zip_files, zip_dir, DATA_DIR, csvfs, artifact, tpc, idx, csv_files,
           ddf, result, calls, wrote, opened, kept, at_call, tbudget>>
vars == <<fvars, tvars>>

\* ================================================================ Fetcher
Absent == [exists |-> FALSE, size |-> 0, complete |-> FALSE]
NoResponse == [status_code |-> 0, body |-> 0]
NoOutcome == [p \in Periods |-> "none"]

Range(s) == {s[i] : i \in DOMAIN s}
Count(s, x) == Cardinality({i \in DOMAIN s : s[i] = x})

\* The periods of range(start_year, end_year + 1) x range(1, 13).
InRange(p) == p[1] >= start_year /\ p[1] <= end_year
RangePeriods == {p \in Periods : InRange(p)}

\* Mutant of FileExists: the existence check is lost, every period is fetched.
FileExistsNever(p) == FALSE

\* file_path.exists()
FileExists(p) == disk[p].exists

\* Mutant of NextPeriod: range(1, 12), the loop stops a month short.
NextPeriodShort(y, m) == IF m < MonthsPerYear - 1 THEN <<y, m + 1>> ELSE <<y + 1, 1>>

\* The next (year, month) of the nested for loops.
NextPeriod(y, m) == IF m < MonthsPerYear THEN <<y, m + 1>> ELSE <<y + 1, 1>>

\* The loops still have an iteration to run.
LoopRunning == pc = "loop" /\ year <= end_year

\* `continue`, or falling off the end of the loop body: the next iteration.
Continue ==
    /\ pc' = "loop"
    /\ year' = NextPeriod(year, month)[1]
    /\ month' = NextPeriod(year, month)[2]
    /\ r' = NoResponse
    /\ written' = 0

\* successful_downloads.append(file_path)
Record(list, p) == Append(list, p)

\* Mutant of ExceptHandler: the handler only logs, the partial file stays.
ExceptHandlerNoUnlink(d, p) == d

\* The except block: if file_path.exists(): file_path.unlink()
ExceptHandler(d, p) == IF d[p].exists THEN [d EXCEPT ![p] = Absent] ELSE d

\* open(file_path, 'wb'): create or truncate.  An empty file holds the whole of an
\* empty body.
OpenWb(d, p, body) ==
    [d EXCEPT ![p] = [exists |-> TRUE, size |-> 0, complete |-> (body = 0)]]

\* f.write(chunk) of the next chunk of a body of `body` chunks.
WriteOne(d, p, body) ==
    [d EXCEPT ![p] = [exists |-> TRUE, size |-> d[p].size + 1,
                      complete |-> (d[p].size + 1 = body)]]

FetchInit ==
    /\ start_year \in Years
    /\ end_year \in Years
    /\ disk = [p \in Periods |-> Absent]
    /\ pc = "idle"
    /\ year = FirstYear
    /\ month = 1
    /\ current_file = 0
    /\ total_files = 0
    /\ successful_downloads = <<>>
    /\ r = NoResponse
    /\ written = 0
    /\ gets = <<>>
    /\ run = 0
    /\ prev = [returned |-> FALSE, list |-> <<>>]
    /\ outcome = NoOutcome
    /\ clean_start = TRUE
    /\ budget = MaxAnomalies

\* Lines 17-35: the call, up to the first iteration; also a rerun after a return or
\* an interruption, with the same arguments and the directory as it was left.
Call ==
    /\ pc \in {"idle", "returned", "interrupted"}
    /\ run < MaxRuns
    /\ run' = run + 1
    /\ prev' = [returned |-> (pc = "returned"),
                list |-> IF pc = "returned" THEN successful_downloads ELSE <<>>]
    /\ clean_start' = (\A p \in Periods : ~FileExists(p))
    /\ current_file' = 0
    /\ total_files' = (end_year - start_year + 1) * MonthsPerYear
    /\ successful_downloads' = <<>>
    /\ gets' = <<>>
    /\ outcome' = NoOutcome
    /\ pc' = "loop"
    /\ year' = start_year
    /\ month' = 1
    /\ r' = NoResponse
    /\ written' = 0
    /\ UNCHANGED <<start_year, end_year, disk, budget, tvars>>

\* Lines 43-47: the file is there: record it and skip the download.
AlreadyExists ==
    /\ LoopRunning
    /\ FileExists(<<year, month>>)
    /\ current_file' = current_file + 1
    /\ successful_downloads' = Record(successful_downloads, <<year, month>>)
    /\ outcome' = [outcome EXCEPT ![<<year, month>>] = "exists"]
    /\ Continue
    /\ UNCHANGED <<start_year, end_year, disk, total_files, gets, run, prev,
                   clean_start, budget, tvars>>

\* Line 53, status 200: the server answers with a body of n chunks.
GetOK ==
    /\ LoopRunning
    /\ ~FileExists(<<year, month>>)
    /\ \E n \in 0 .. MaxChunks :
          /\ n # MaxChunks => budget > 0
          /\ budget' = IF n # MaxChunks THEN budget - 1 ELSE budget
          /\ r' = [status_code |-> StatusOK, body |-> n]
    /\ current_file' = current_file + 1
    /\ gets' = Append(gets, <<year, month>>)
    /\ pc' = "open"
    /\ UNCHANGED <<start_year, end_year, disk, year, month, total_files,
                   successful_downloads, written, run, prev, outcome, clean_start,
                   tvars>>

\* Lines 53-57: any other status: skip the period.
GetNon200 ==
    /\ LoopRunning
    /\ ~FileExists(<<year, month>>)
    /\ budget > 0
    /\ budget' = budget - 1
    /\ current_file' = current_file + 1
    /\ gets' = Append(gets, <<year, month>>)
    /\ outcome' = [outcome EXCEPT ![<<year, month>>] = "non200"]
    /\ Continue
    /\ UNCHANGED <<start_year, end_year, disk, total_files, successful_downloads,
                   run, prev, clean_start, tvars>>

\* Lines 53, 69-72: requests.get raises (network error, timeout).
GetRaises ==
    /\ LoopRunning
    /\ ~FileExists(<<year, month>>)
    /\ budget > 0
    /\ budget' = budget - 1
    /\ current_file' = current_file + 1
    /\ gets' = Append(gets, <<year, month>>)
    /\ disk' = ExceptHandler(disk, <<year, month>>)
    /\ outcome' = [outcome EXCEPT ![<<year, month>>] = "exc_get"]
    /\ Continue
    /\ UNCHANGED <<start_year, end_year, total_files, successful_downloads,
                   run, prev, clean_start, tvars>>

\* Line 59: open(file_path, 'wb').
OpenFile ==
    /\ pc = "open"
    /\ disk' = OpenWb(disk, <<year, month>>, r.body)
    /\ written' = 0
    /\ pc' = "write"
    /\ UNCHANGED <<start_year, end_year, year, month, current_file, total_files,
                   successful_downloads, r, gets, run, prev, outcome, clean_start,
                   budget, tvars>>

\* Lines 59, 69-72: open raises (disk error).
OpenRaises ==
    /\ pc = "open"
    /\ budget > 0
    /\ budget' = budget - 1
    /\ disk' = ExceptHandler(disk, <<year, month>>)
    /\ outcome' = [outcome EXCEPT ![<<year, month>>] = "exc_open"]
    /\ Continue
    /\ UNCHANGED <<start_year, end_year, current_file, total_files,
                   successful_downloads, gets, run, prev, clean_start, tvars>>

\* Lines 60-61: one chunk of the body reaches the file.
WriteChunk ==
    /\ pc = "write"
    /\ written < r.body
    /\ disk' = WriteOne(disk, <<year, month>>, r.body)
    /\ written' = written + 1
    /\ UNCHANGED <<start_year, end_year, pc, year, month, current_file, total_files,
                   successful_downloads, r, gets, run, prev, outcome, clean_start,
                   budget, tvars>>

\* Lines 60-61, 69-72: iter_content or f.write raises with chunks still to come;
\* the with block closes the file, the handler removes it.
WriteRaises ==
    /\ pc = "write"
    /\ written < r.body
    /\ budget > 0
    /\ budget' = budget - 1
    /\ disk' = ExceptHandler(disk, <<year, month>>)
    /\ outcome' = [outcome EXCEPT ![<<year, month>>] = "exc_write"]
    /\ Continue
    /\ UNCHANGED <<start_year, end_year, current_file, total_files,
                   successful_downloads, gets, run, prev, clean_start, tvars>>

\* Lines 64-67: the body is exhausted: stat, record, sleep.
FinishDownload ==
    /\ pc = "write"
    /\ written = r.body
    /\ successful_downloads' = Record(successful_downloads, <<year, month>>)
    /\ outcome' = [outcome EXCEPT ![<<year, month>>] = "ok"]
    /\ Continue
    /\ UNCHANGED <<start_year, end_year, disk, current_file, total_files, gets, run,
                   prev, clean_start, budget, tvars>>

\* The process is interrupted (KeyboardInterrupt is no Exception, a kill runs no
\* handler): nothing is cleaned up.
Interrupt ==
    /\ pc \in {"loop", "open", "write"}
    /\ budget > 0
    /\ budget' = budget - 1
    /\ pc' = "interrupted"
    /\ UNCHANGED <<start_year, end_year, disk, year, month, current_file, total_files,
                   successful_downloads, r, written, gets, run, prev, outcome,
                   clean_start, tvars>>

\* Lines 74-80: the loops are over: return successful_downloads.
Return ==
    /\ pc = "loop"
    /\ year > end_year
    /\ pc' = "returned"
    /\ UNCHANGED <<start_year, end_year, disk, year, month, current_file, total_files,
                   successful_downloads, r, written, gets, run, prev, outcome,
                   clean_start, budget, tvars>>


\* The Fetcher is not running (specification SpecTransform).
FetchOff ==
    /\ start_year = FirstYear
    /\ end_year = FirstYear
    /\ disk = [p \in Periods |-> Absent]
    /\ pc = "off"
    /\ year = FirstYear
    /\ month = 1
    /\ current_file = 0
    /\ total_files = 0
    /\ successful_downloads = <<>>
    /\ r = NoResponse
    /\ written = 0
    /\ gets = <<>>
    /\ run = 0
    /\ prev = [returned |-> FALSE, list |-> <<>>]
    /\ outcome = NoOutcome
    /\ clean_start = TRUE
    /\ budget = 0

\* ============================================================ Transformer
\* Lines 142-150.
top_us_airports == {"ATL", "DFW", "DEN", "ORD", "LAX", "CLT"}

\* Lines 127-130, the columns of use_cols the model's CSV rows carry.
use_cols == {"FlightDate", "Origin", "Dest"}

\* A CSV row as the archive holds it; Year is a column outside use_cols.
Row(y, d, o, t) == [Year |-> y, FlightDate |-> d, Origin |-> o, Dest |-> t]

ValidDates == {"2020-01-15", "2020-02-01", "2020-02-02", "2020-03-01", "2020-03-09"}

\* dd.to_datetime(..., errors='coerce'): a value that does not parse becomes NaT.
to_datetime(s) == IF s \in ValidDates THEN s ELSE "NaT"

\* The archives extract_and_filter may be handed: whether the file opens as a zip,
\* its namelist (entry name and extension), and the rows of each CSV entry.
Archives == {"jan", "feb", "mar", "nocsv", "broken"}
Entry(n, e) == [name |-> n, ext |-> e]
IsZip(a) == a # "broken"
namelist(a) ==
    CASE a = "jan" -> <<Entry("readme.html", "html"), Entry("flights.csv", "csv")>>
      [] a = "feb" -> <<Entry("flights.csv", "csv")>>
      [] a = "mar" -> <<Entry("mar.csv", "csv"), Entry("extra.csv", "csv")>>
      [] a = "nocsv" -> <<Entry("readme.html", "html")>>
      [] OTHER -> <<>>
Payload(a, n) ==
    CASE a = "jan" /\ n = "flights.csv" ->
             <<Row(2020, "2020-01-15", "ATL", "JFK"), Row(2020, "not-a-date", "YYZ", "LAX")>>
      [] a = "feb" /\ n = "flights.csv" ->
             <<Row(2020, "2020-02-01", "JFK", "YYZ"), Row(2020, "2020-02-02", "DEN", "ORD")>>
      [] a = "mar" /\ n = "mar.csv" ->
             <<Row(2020, "", "SEA", "JFK"), Row(2020, "2020-03-01", "CLT", "SEA")>>
      [] a = "mar" /\ n = "extra.csv" ->
             <<Row(2020, "2020-03-09", "DFW", "DFW")>>
      [] OTHER -> <<>>

CsvNames == {"flights.csv", "mar.csv", "extra.csv"}
Dirs == {"data/raw", "downloads"}
Undefined == "undefined"
CsvPaths == Dirs \X CsvNames
NoCsvFile == [exists |-> FALSE, rows |-> <<>>]
NoArtifact == [exists |-> FALSE, rows |-> <<>>]
ArtifactPath == "processed/flights_2020_2025_canada_cleaned.parquet"

\* Sequences over S of length at most n.
SeqsUpTo(S, n) == UNION {[1 .. k -> S] : k \in 0 .. n}

\* Line 109: [n for n in z.namelist() if n.endswith(".csv")]
CsvEntries(a) == SelectSeq(namelist(a), LAMBDA e : e.ext = "csv")

\* Lines 108-109 succeed: the file opens as a zip and the list has an element [0].
Extractable(a) == IsZip(a) /\ CsvEntries(a) # <<>>

\* Line 110: temp_csv = file.parent / csv_name
TempCsv(a) == <<zip_dir, CsvEntries(a)[1].name>>

\* Lines 111-112: extract unless a file of that name is there.
ExtractIfAbsent(fs, a) ==
    IF fs[TempCsv(a)].exists
    THEN fs
    ELSE [fs EXCEPT ![TempCsv(a)] =
              [exists |-> TRUE, rows |-> Payload(a, CsvEntries(a)[1].name)]]

\* Mutant of ProcessedFileExists: the short-circuit is lost.
ProcessedFileNeverExists == FALSE

\* Line 94: processed_file.exists()
ProcessedFileExists == artifact.exists

\* Mutant of NoCsvFiles: the abort check is lost.
NoCsvFilesNever == FALSE

\* Line 119: not csv_files
NoCsvFiles == csv_files = <<>>

RECURSIVE ReadAll(_, _)
\* Line 133: dd.read_csv(csv_files, usecols=...): the rows of the files, in list
\* order, each cut to use_cols.
ReadAll(fs, paths) ==
    IF paths = <<>>
    THEN <<>>
    ELSE [i \in DOMAIN fs[Head(paths)].rows |->
              [c \in use_cols |-> fs[Head(paths)].rows[i][c]]]
         \o ReadAll(fs, Tail(paths))

\* Line 138: ddf['FlightDate'] = dd.to_datetime(ddf["FlightDate"], errors='coerce')
ParseDates(t) ==
    [i \in DOMAIN t |-> [t[i] EXCEPT !.FlightDate = to_datetime(t[i].FlightDate)]]

\* Mutant of Mask: & in place of |.
MaskBoth(row) == row.Origin \in top_us_airports /\ row.Dest \in top_us_airports

\* Line 153: mask = Origin.isin(top_us_airports) | Dest.isin(top_us_airports)
Mask(row) == row.Origin \in top_us_airports \/ row.Dest \in top_us_airports

\* Line 154: ddf[mask].compute()
main_flights(t) == SelectSeq(t, Mask)

\* Lines 166-170: DATA_DIR.rglob("*.csv") with each unlink that does not fail;
\* the files of `failing` stay.
Unlinked(fs, dir, failing) ==
    [p \in CsvPaths |->
        IF p[1] = dir /\ fs[p].exists /\ p \notin failing THEN NoCsvFile ELSE fs[p]]

TransformInit ==
    /\ zip_files \in SeqsUpTo(Archives, MaxZips)
    /\ zip_dir \in Dirs
    /\ DATA_DIR \in Dirs \cup {Undefined}
    /\ csvfs = [p \in CsvPaths |-> NoCsvFile]
    /\ artifact = NoArtifact
    /\ tpc = "idle"
    /\ idx = 1
    /\ csv_files = <<>>
    /\ ddf = <<>>
    /\ result = "none"
    /\ calls = 0
    /\ wrote = FALSE
    /\ opened = {}
    /\ kept = {}
    /\ at_call = [csvfs |-> csvfs, artifact |-> artifact, result |-> "none"]
    /\ tbudget = MaxAnomalies

\* The Transformer is not running (specification Spec).
TransformOff ==
    /\ zip_files = <<>>
    /\ zip_dir = "data/raw"
    /\ DATA_DIR = "data/raw"
    /\ csvfs = [p \in CsvPaths |-> NoCsvFile]
    /\ artifact = NoArtifact
    /\ tpc = "off"
    /\ idx = 1
    /\ csv_files = <<>>
    /\ ddf = <<>>
    /\ result = "none"
    /\ calls = 0
    /\ wrote = FALSE
    /\ opened = {}
    /\ kept = {}
    /\ at_call = [csvfs |-> csvfs, artifact |-> artifact, result |-> "none"]
    /\ tbudget = 0

\* Lines 86-90: the call, with the same arguments, on the files as they were left.
TCall ==
    /\ tpc \in {"idle", "done", "raised", "interrupted"}
    /\ calls < MaxRuns
    /\ calls' = calls + 1
    /\ at_call' = [csvfs |-> csvfs, artifact |-> artifact, result |-> result]
    /\ tpc' = "start"
    /\ idx' = 1
    /\ csv_files' = <<>>
    /\ ddf' = <<>>
    /\ result' = "none"
    /\ wrote' = FALSE
    /\ opened' = {}
    /\ kept' = {}
    /\ UNCHANGED <<zip_files, zip_dir, DATA_DIR, csvfs, artifact, tbudget, fvars>>

\* Lines 94-97: the artifact is there: return its path.
ShortCircuit ==
    /\ tpc = "start"
    /\ ProcessedFileExists
    /\ result' = ArtifactPath
    /\ tpc' = "done"
    /\ UNCHANGED <<zip_files, zip_dir, DATA_DIR, csvfs, artifact, idx, csv_files, ddf,
                   calls, wrote, opened, kept, at_call, tbudget, fvars>>

\* Lines 99-105: otherwise start the extraction loop.
BeginExtract ==
    /\ tpc = "start"
    /\ ~ProcessedFileExists
    /\ tpc' = "extract"
    /\ UNCHANGED <<zip_files, zip_dir, DATA_DIR, csvfs, artifact, idx, csv_files, ddf,
                   result, calls, wrote, opened, kept, at_call, tbudget, fvars>>

\* Lines 106-114: one archive that opens and has a .csv entry.
ExtractOne ==
    /\ tpc = "extract"
    /\ idx <= Len(zip_files)
    /\ Extractable(zip_files[idx])
    /\ opened' = opened \cup {idx}
    /\ csvfs' = ExtractIfAbsent(csvfs, zip_files[idx])
    /\ csv_files' = Append(csv_files, TempCsv(zip_files[idx]))
    /\ idx' = idx + 1
    /\ UNCHANGED <<zip_files, zip_dir, DATA_DIR, artifact, tpc, ddf, result, calls,
                   wrote, kept, at_call, tbudget, fvars>>

\* Lines 108-109, 115-117: ZipFile raises (not a zip, no such file) or [0] raises
\* IndexError: caught, next archive.
ExtractError ==
    /\ tpc = "extract"
    /\ idx <= Len(zip_files)
    /\ ~Extractable(zip_files[idx])
    /\ opened' = IF IsZip(zip_files[idx]) THEN opened \cup {idx} ELSE opened
    /\ idx' = idx + 1
    /\ UNCHANGED <<zip_files, zip_dir, DATA_DIR, csvfs, artifact, tpc, csv_files, ddf,
                   result, calls, wrote, kept, at_call, tbudget, fvars>>

\* Line 112 cut short: the process is interrupted while z.extract writes the file;
\* the first k rows are on disk.
ExtractInterrupted ==
    /\ tpc = "extract"
    /\ idx <= Len(zip_files)
    /\ Extractable(zip_files[idx])
    /\ ~csvfs[TempCsv(zip_files[idx])].exists
    /\ tbudget > 0
    /\ tbudget' = tbudget - 1
    /\ opened' = opened \cup {idx}
    /\ \E k \in 0 .. (Len(Payload(zip_files[idx], CsvEntries(zip_files[idx])[1].name)) - 1) :
          csvfs' = [csvfs EXCEPT ![TempCsv(zip_files[idx])] =
                       [exists |-> TRUE,
                        rows |-> SubSeq(Payload(zip_files[idx],
                                                CsvEntries(zip_files[idx])[1].name), 1, k)]]
    /\ tpc' = "interrupted"
    /\ UNCHANGED <<zip_files, zip_dir, DATA_DIR, artifact, idx, csv_files, ddf, result,
                   calls, wrote, kept, at_call, fvars>>

\* Lines 119-121: nothing was extracted: return None.
ReturnNone ==
    /\ tpc = "extract"
    /\ idx > Len(zip_files)
    /\ NoCsvFiles
    /\ result' = "None"
    /\ tpc' = "done"
    /\ UNCHANGED <<zip_files, zip_dir, DATA_DIR, csvfs, artifact, idx, csv_files, ddf,
                   calls, wrote, opened, kept, at_call, tbudget, fvars>>

\* Lines 123-161: load, parse the dates, filter, write the artifact.
FilterAndWrite ==
    /\ tpc = "extract"
    /\ idx > Len(zip_files)
    /\ ~NoCsvFiles
    /\ ddf' = ParseDates(ReadAll(csvfs, csv_files))
    /\ artifact' = [exists |-> TRUE, rows |-> main_flights(ddf')]
    /\ wrote' = TRUE
    /\ tpc' = "cleanup"
    /\ UNCHANGED <<zip_files, zip_dir, DATA_DIR, csvfs, idx, csv_files, result, calls,
                   opened, kept, at_call, tbudget, fvars>>

\* Lines 165-172: DATA_DIR names a directory: unlink its CSV files, failures
\* swallowed, and return the artifact path.
Cleanup ==
    /\ tpc = "cleanup"
    /\ DATA_DIR # Undefined
    /\ \E failing \in SUBSET {p \in CsvPaths : p[1] = DATA_DIR /\ csvfs[p].exists} :
          /\ failing # {} => tbudget > 0
          /\ tbudget' = IF failing # {} THEN tbudget - 1 ELSE tbudget
          /\ kept' = failing
          /\ csvfs' = Unlinked(csvfs, DATA_DIR, failing)
    /\ result' = ArtifactPath
    /\ tpc' = "done"
    /\ UNCHANGED <<zip_files, zip_dir, DATA_DIR, artifact, idx, csv_files, ddf, calls,
                   wrote, opened, at_call, fvars>>

\* Line 165: DATA_DIR is no local and no global of the module: NameError, which
\* nothing in the function catches.
CleanupNameError ==
    /\ tpc = "cleanup"
    /\ DATA_DIR = Undefined
    /\ tpc' = "raised"
    /\ UNCHANGED <<zip_files, zip_dir, DATA_DIR, csvfs, artifact, idx, csv_files, ddf,
                   result, calls, wrote, opened, kept, at_call, tbudget, fvars>>

\* ========================================================= specifications
Init == FetchInit /\ TransformOff

Next ==
    \/ Call
    \/ AlreadyExists
    \/ GetOK
    \/ GetNon200
    \/ GetRaises
    \/ OpenFile
    \/ OpenRaises
    \/ WriteChunk
    \/ WriteRaises
    \/ FinishDownload
    \/ Interrupt
    \/ Return

Spec == Init /\ [][Next]_vars

InitTransform == FetchOff /\ TransformInit

NextTransform ==
    \/ TCall
    \/ ShortCircuit
    \/ BeginExtract
    \/ ExtractOne
    \/ ExtractError
    \/ ExtractInterrupted
    \/ ReturnNone
    \/ FilterAndWrite
    \/ Cleanup
    \/ CleanupNameError

SpecTransform == InitTransform /\ [][NextTransform]_vars

\* ================================================================= claims
\* The periods of the range in chronological order, twelve a year.
ChronologicalPeriods ==
    [i \in 1 .. (12 * (end_year - start_year + 1)) |->
        <<start_year + ((i - 1) \div 12), ((i - 1) % 12) + 1>>]

Raised(p) == outcome[p] \in {"exc_get", "exc_open", "exc_write"}

\* C1 as stated: a second call right after a returned first call issues no GET and
\* returns the same set of paths, whatever the outcomes of the first call were.
C1_SecondRunNoGetSameSet ==
    (pc = "returned" /\ prev.returned) =>
        /\ gets = <<>>
        /\ Range(successful_downloads) = Range(prev.list)

\* C1 as amended: a second call right after a returned first call issues no GET for
\* a period the first call returned and one GET, in chronological order, for each
\* period of the range it did not return; it returns every path the first call
\* returned; and when the first call returned every period of the range it issues
\* no GET at all and returns the same list.
C1_SecondRunFetchesOnlyMissing ==
    (pc = "returned" /\ prev.returned) =>
        /\ Range(gets) = RangePeriods \ Range(prev.list)
        /\ \A p \in Range(gets) : Count(gets, p) = 1
        /\ gets = SelectSeq(ChronologicalPeriods, LAMBDA p : p \notin Range(prev.list))
        /\ Range(prev.list) \subseteq Range(successful_downloads)
        /\ Range(prev.list) = RangePeriods =>
              (gets = <<>> /\ successful_downloads = prev.list)

\* C1 witness: a second call has returned after a first call that returned some
\* periods and failed on another, which the second call fetched.
C1_Witness ==
    /\ pc = "returned"
    /\ prev.returned
    /\ prev.list # <<>>
    /\ gets # <<>>
    /\ Len(successful_downloads) > Len(prev.list)

\* C2 as stated: every path of the returned list is a file that exists on disk and
\* has size greater than zero.
C2_RecordedFilesNonEmpty ==
    pc = "returned" =>
        \A p \in Range(successful_downloads) : disk[p].exists /\ disk[p].size > 0

\* C3: a call that starts with no archive on disk issues exactly one GET per period
\* of the range, 12 * (end_year - start_year + 1) in all, in chronological order; a
\* non-200 period does not end the call; the returned list has one path per period
\* that answered 200 and was fully written, and none for a non-200 period.
C3_OneGetPerPeriod ==
    (pc = "returned" /\ clean_start) =>
        /\ gets = ChronologicalPeriods
        /\ Len(gets) = 12 * (end_year - start_year + 1)
        /\ Len(successful_downloads) = Cardinality({p \in Periods : outcome[p] = "ok"})
        /\ Range(successful_downloads) = {p \in Periods : outcome[p] = "ok"}
        /\ \A p \in Periods : outcome[p] = "non200" => p \notin Range(successful_downloads)
        /\ \A p \in RangePeriods : outcome[p] # "none"

\* C3 witness: such a call returned eleven paths of twelve after one non-200 answer.
C3_Witness ==
    /\ pc = "returned"
    /\ clean_start
    /\ \E p \in Periods : outcome[p] = "non200"
    /\ Len(gets) = 12
    /\ Len(successful_downloads) = 11

\* C4: once the download of a period has raised (in the GET, in open, or while
\* writing chunks), no file is at its path, its path is not in the list, it was
\* requested at most once in this call, the loop has gone on to the period after
\* it, and a call that returns has processed every period of the range.
C4_ExceptionCleansUpAndContinues ==
    \A p \in Periods :
        Raised(p) =>
            /\ ~disk[p].exists
            /\ p \notin Range(successful_downloads)
            /\ Count(gets, p) <= 1
            /\ pc \in {"loop", "open", "write", "returned", "interrupted"}
            /\ <<year, month>> # p
            /\ pc = "returned" => \A q \in RangePeriods : outcome[q] # "none"

\* C4 witness: a call has returned in which one period raised while its chunks were
\* being written and the period after it was downloaded.
C4_Witness ==
    /\ pc = "returned"
    /\ \E p \in Periods :
          /\ outcome[p] = "exc_write"
          /\ p[2] < 12
          /\ outcome[<<p[1], p[2] + 1>>] = "ok"

\* C9 as stated: a period is skipped and recorded as successful because its file
\* exists only if that file holds the whole archive.
C9_SkippedOnlyIfComplete ==
    \A p \in Periods : outcome[p] = "exists" => disk[p].complete

\* C5: a call that finds the artifact present opens no archive, extracts and deletes
\* no CSV file, leaves the artifact as it was and returns its path, the same path a
\* successful earlier call returned.
C5_ShortCircuitTouchesNothing ==
    (calls > 0 /\ at_call.artifact.exists) =>
        /\ tpc \in {"start", "done"}
        /\ opened = {}
        /\ csvfs = at_call.csvfs
        /\ artifact = at_call.artifact
        /\ tpc = "done" =>
              /\ result = ArtifactPath
              /\ at_call.result # "none" => result = at_call.result

\* C5 witness: a second call returned after a first call that wrote the artifact
\* from an archive and returned its path.
C5_Witness ==
    /\ tpc = "done"
    /\ at_call.artifact.exists
    /\ at_call.result = ArtifactPath
    /\ \E i \in DOMAIN zip_files : Extractable(zip_files[i])

\* C6: a call that finds no artifact and whose archives all fail extraction (or
\* whose list is empty) raises nothing, writes no artifact and returns None.
C6_NothingExtractedReturnsNone ==
    (calls > 0 /\ ~at_call.artifact.exists
        /\ \A i \in DOMAIN zip_files : ~Extractable(zip_files[i])) =>
        /\ tpc \in {"start", "extract", "done"}
        /\ ~artifact.exists
        /\ ~wrote
        /\ tpc = "done" => result = "None"

\* C6 witness: a call given one file that is no zip and one zip without a .csv entry
\* has returned None.
C6_Witness ==
    /\ tpc = "done"
    /\ result = "None"
    /\ zip_files = <<"broken", "nocsv">>
    /\ opened = {2}

InAllowlist(row) ==
    \/ row.Origin \in {"ATL", "DFW", "DEN", "ORD", "LAX", "CLT"}
    \/ row.Dest \in {"ATL", "DFW", "DEN", "ORD", "LAX", "CLT"}

\* C7: the rows of the artifact a call wrote are exactly the rows of the loaded
\* table whose Origin or Dest is one of ATL, DFW, DEN, ORD, LAX, CLT, in table
\* order, rows whose FlightDate did not parse included.
C7_ArtifactIsAllowlistFilter ==
    wrote =>
        /\ \A i \in DOMAIN artifact.rows : InAllowlist(artifact.rows[i])
        /\ \A j \in DOMAIN ddf :
              InAllowlist(ddf[j]) => \E i \in DOMAIN artifact.rows : artifact.rows[i] = ddf[j]
        /\ Len(artifact.rows) = Cardinality({j \in DOMAIN ddf : InAllowlist(ddf[j])})
        /\ artifact.rows = SelectSeq(ddf, InAllowlist)

\* C7 witness: an artifact was written that keeps a row with an unparsed date and a
\* row matching on Origin only, from a table with a row matching on neither.
C7_Witness ==
    /\ wrote
    /\ \E i \in DOMAIN artifact.rows :
          artifact.rows[i].FlightDate = "NaT" /\ artifact.rows[i].Dest = "LAX"
    /\ \E i \in DOMAIN artifact.rows :
          artifact.rows[i].Origin = "ATL" /\ artifact.rows[i].Dest = "JFK"
    /\ \E j \in DOMAIN ddf : ~InAllowlist(ddf[j])

\* C8 as stated: a call that wrote the artifact ends by returning its path, with
\* every CSV file it loaded deleted unless that deletion failed, whatever the
\* archives' directory and whether or not DATA_DIR is defined.
C8_CleanupDeletesExtractedAndReturns ==
    (wrote /\ tpc \in {"done", "raised"}) =>
        /\ tpc = "done"
        /\ result = ArtifactPath
        /\ \A i \in DOMAIN csv_files :
              ~csvfs[csv_files[i]].exists \/ csv_files[i] \in kept

RECURSIVE OwnPayloads(_)
\* The payload of each extractable archive of the list, once, in list order.
OwnPayloads(zs) ==
    IF zs = <<>>
    THEN <<>>
    ELSE (IF Extractable(Head(zs))
          THEN [i \in DOMAIN Payload(Head(zs), CsvEntries(Head(zs))[1].name) |->
                   [c \in {"FlightDate", "Origin", "Dest"} |->
                       Payload(Head(zs), CsvEntries(Head(zs))[1].name)[i][c]]]
          ELSE <<>>)
         \o OwnPayloads(Tail(zs))

\* C10 as stated: the table a call loads holds, for each archive that opens and has
\* a .csv entry, that archive's own complete payload, once, in input-list order.
C10_EachArchiveLoadedOnce ==
    wrote => ddf = ParseDates(OwnPayloads(zip_files))

====
